---- MODULE Spec2Model ----
(***************************************************************************)
(* The Floor Game: model of the game-state engine in                       *)
(* src/the_floor_game/core.py (Player, Duel, Board, Game).                 *)
(*                                                                         *)
(* Players are the objects handed to Game(...); they carry the ids 1..n    *)
(* (as web.py's create_game numbers them) and are referred to by id.       *)
(* None is modelled as 0 for ids and as NoCategory for categories.         *)
(***************************************************************************)
EXTENDS Integers, Sequences, FiniteSets, TLC

\* ---------------------------------------------------------------- bounds
MaxBoards == 3       \* the first MaxBoards board sizes of Boards are explored
MaxDuels == 2        \* challenge is explored while len(duel_history) < MaxDuels
MaxCalls == 4        \* at most MaxCalls calls that return normally are explored
MaxSide == 2         \* Game(...) is explored for nrows, ncols in -MaxSide..MaxSide

\* ---------------------------------------------------------------- values
None == 0
NoCategory == "None"
\* the Category values the callers use
Categories == {"History", "Science"}

VARIABLES
    nrows,               \* Game.nrows / Board.nrows
    ncols,               \* Game.ncols / Board.ncols
    players,             \* Game.players: id -> [expertise, positions, eliminated]
    grid,                \* Board._grid: (row, col) -> player id or None
    duel_history,        \* Game.duel_history: sequence of Duel objects
    over,                \* Game.over
    winner_id,           \* Game.winner_id
    turn_challenger_id,  \* Game.turn_challenger_id
    last,                \* the last call made on the game and how it ended
    calls,               \* number of calls that returned normally so far
    mode,                \* "sequential", or how concurrent callers are scheduled
    threads              \* the frames of concurrently running resolve_duel calls

gameVars == <<nrows, ncols, players, grid, duel_history, over, winner_id,
              turn_challenger_id>>
vars == <<nrows, ncols, players, grid, duel_history, over, winner_id,
          turn_challenger_id, last, calls, mode, threads>>

\* ---------------------------------------------------------------- helpers
Ids == DOMAIN players
Cells == (0..(nrows - 1)) \X (0..(ncols - 1))

\* Board.capacity
capacity == nrows * ncols

Range(s) == {s[i] : i \in DOMAIN s}

\* the ids a caller may pass: every registered id and one unregistered id
ArgIds == 1..(Cardinality(Ids) + 1)

\* a call and its outcome: "ok" or the kind of error raised
Call(op, res) == [op |-> op, res |-> res]

\* a call that returns normally counts against MaxCalls; a call that raises
\* leaves the count alone
Counted ==
    /\ calls' = (IF last'.res = "ok" THEN calls + 1 ELSE calls)
    /\ calls' <= MaxCalls
    /\ UNCHANGED <<mode, threads>>

\* Player(id=..., name=...): dataclass defaults
NewPlayer == [expertise |-> NoCategory, positions |-> <<>>, eliminated |-> FALSE]

\* Board.__init__: every cell unowned
EmptyGrid(nr, nc) == [cell \in (0..(nr - 1)) \X (0..(nc - 1)) |-> None]

\* Board.place_players: the k-th player drawn from the iterator (k counted
\* from 0 over the row-major double loop) has id k + 1
PlacedId(r, c, nc) == r * nc + c + 1

place_players_grid(nr, nc) ==
    [cell \in DOMAIN EmptyGrid(nr, nc) |-> PlacedId(cell[1], cell[2], nc)]

place_players_positions(nr, nc) ==
    [id \in 1..(nr * nc) |->
        LET cell == CHOOSE x \in (0..(nr - 1)) \X (0..(nc - 1)) :
                        PlacedId(x[1], x[2], nc) = id
        IN  [NewPlayer EXCEPT !.positions = <<cell>>]]

\* the board sizes (nrows, ncols) a game is built with: one row, then one
\* column, then square
Boards == <<<<1, 1>>, <<1, 2>>, <<1, 3>>, <<2, 1>>, <<3, 1>>, <<2, 2>>>>

Dims == {Boards[k] : k \in 1..MaxBoards}

\* ---------------------------------------------------------------- Game.__init__
Init ==
    \E d \in Dims :
        /\ nrows = d[1]
        /\ ncols = d[2]
        /\ players = place_players_positions(d[1], d[2])
        /\ grid = place_players_grid(d[1], d[2])
        /\ duel_history = <<>>
        /\ over = FALSE
        /\ winner_id = None
        /\ turn_challenger_id = None
        /\ last = Call("construct", "ok")
        /\ calls = 0
        /\ mode = "sequential"
        /\ threads = <<>>

\* ---------------------------------------------------------------- Game.set_player_expertise
set_player_expertise(player_id, category) ==
    /\ mode = "sequential"
    /\ IF player_id \notin Ids
       THEN /\ last' = Call("setPlayerExpertise", "UnknownPlayer")
            /\ UNCHANGED gameVars
       ELSE /\ players' = [players EXCEPT ![player_id].expertise = category]
            /\ last' = Call("setPlayerExpertise", "ok")
            /\ UNCHANGED <<nrows, ncols, grid, duel_history, over, winner_id,
                           turn_challenger_id>>
    /\ Counted

\* ---------------------------------------------------------------- Game.challenge
\* mutant of NewDuel: the two players passed in each other's place
NewDuel_swapped(c, d, cat) ==
    [challenger |-> d, challenged |-> c, category |-> cat, winner_id |-> None]

\* Duel(challenger=..., challenged=..., category=...): winner_id defaults to None
NewDuel(c, d, cat) ==
    [challenger |-> c, challenged |-> d, category |-> cat, winner_id |-> None]

\* mutant of ChallengeResult: the expertise check left out
ChallengeResult_unchecked(c, d) ==
    IF c = d THEN "SelfChallenge"
    ELSE IF c \notin Ids \/ d \notin Ids THEN "UnknownPlayer"
    ELSE "ok"

\* the checks at the head of challenge, in the code's order
ChallengeResult(c, d) ==
    IF c = d THEN "SelfChallenge"
    ELSE IF c \notin Ids \/ d \notin Ids THEN "UnknownPlayer"
    ELSE IF players[d].expertise = NoCategory THEN "NoExpertiseSet"
    ELSE "ok"

challenge(challenger_id, challenged_id) ==
    /\ mode = "sequential"
    /\ LET res == ChallengeResult(challenger_id, challenged_id) IN
       /\ res = "ok" => Len(duel_history) < MaxDuels
       /\ last' = Call("challenge", res)
       /\ IF res = "ok"
          THEN /\ duel_history' = Append(duel_history,
                      NewDuel(challenger_id, challenged_id,
                              players[challenged_id].expertise))
               /\ UNCHANGED <<nrows, ncols, players, grid, over, winner_id,
                              turn_challenger_id>>
          ELSE UNCHANGED gameVars
    /\ Counted

\* ---------------------------------------------------------------- Duel
\* Duel.resolve: the check at its head (the player's id is the player's key)
ValidWinner(duel, w) == w \in {duel.challenger, duel.challenged}

\* Game.resolve_duel, "Determine winner and loser player objects"
WinnerOf(duel) ==
    IF duel.winner_id = duel.challenger THEN duel.challenger ELSE duel.challenged

LoserOf(duel) ==
    IF duel.winner_id = duel.challenger THEN duel.challenged ELSE duel.challenger

\* `duel not in self.duel_history`: list membership is identity or ==, and the
\* dataclass Duel compares (challenger, challenged, category, winner_id)
InHistory(duel) == \E i \in DOMAIN duel_history : duel_history[i] = duel

\* ---------------------------------------------------------------- Game.resolve_duel
\* mutant of GridWrite: the cell is left with its previous owner
GridWrite_skipped(g, pos, winner) == g

\* self.board._grid[pos] = winner.id
GridWrite(g, pos, winner) == [g EXCEPT ![pos] = winner]

\* mutant of AppendPosition: the cell is not added to the winner's positions
AppendPosition_dropped(ps, winner, pos) == ps

\* winner.positions.append(pos)
AppendPosition(ps, winner, pos) ==
    [ps EXCEPT ![winner].positions = Append(@, pos)]

\* mutant of TransferCell: only the grid records the new owner
TransferCell_gridonly(st, winner, pos) ==
    [players |-> st.players, grid |-> GridWrite(st.grid, pos, winner)]

\* one pass of the transfer loop's body, on st = [players, grid]
TransferCell(st, winner, pos) ==
    [players |-> AppendPosition(st.players, winner, pos),
     grid    |-> GridWrite(st.grid, pos, winner)]

RECURSIVE TransferLoop(_, _, _)
TransferLoop(st, winner, snapshot) ==
    IF snapshot = <<>> THEN st
    ELSE TransferLoop(TransferCell(st, winner, Head(snapshot)), winner,
                      Tail(snapshot))

\* mutant of InheritExpertise: the winner takes the challenged's expertise
InheritExpertise_challenged(ps, duel, winner) ==
    [ps EXCEPT ![winner].expertise = ps[duel.challenged].expertise]

\* "Winner inherits the challenger's expertise/category"
InheritExpertise(ps, duel, winner) ==
    [ps EXCEPT ![winner].expertise = ps[duel.challenger].expertise]

\* mutant of ClearPositions: the loser's positions are left as they are
ClearPositions_kept(ps, loser) == ps

\* loser.positions = []
ClearPositions(ps, loser) == [ps EXCEPT ![loser].positions = <<>>]

\* mutant of SetEliminated: the loser is not marked
SetEliminated_skipped(ps, loser) == ps

\* loser.eliminated = True
SetEliminated(ps, loser) == [ps EXCEPT ![loser].eliminated = TRUE]

\* mutant of ClearLoser: the loser is the only player left marked eliminated
ClearLoser_revived(ps, loser) ==
    [id \in DOMAIN ps |->
        [ClearPositions(ps, loser)[id] EXCEPT !.eliminated = (id = loser)]]

\* "clear loser"
ClearLoser(ps, loser) == SetEliminated(ClearPositions(ps, loser), loser)

\* mutant of AlivePlayers: alive taken to mean "owns a cell"
AlivePlayers_owning(ps) == {id \in DOMAIN ps : ps[id].positions # <<>>}

\* alive_players = [p for p in self.players.values() if not p.eliminated]
AlivePlayers(ps) == {id \in DOMAIN ps : ~ps[id].eliminated}

\* mutant of OneOwnsAll: the end of the game is never detected
OneOwnsAll_never(ps) == FALSE

\* the condition of the final if of resolve_duel
OneOwnsAll(ps) ==
    /\ Cardinality(AlivePlayers(ps)) = 1
    /\ \A id \in AlivePlayers(ps) : Len(ps[id].positions) = capacity

\* the part of resolve_duel after duel.resolve, for the duel as resolved
ApplyResolution(duel) ==
    LET winner == WinnerOf(duel)
        loser  == LoserOf(duel)
        moved  == TransferLoop([players |-> players, grid |-> grid], winner,
                               players[loser].positions)
        ps     == ClearLoser(InheritExpertise(moved.players, duel, winner), loser)
    IN  /\ players' = ps
        /\ grid' = moved.grid
        /\ IF OneOwnsAll(ps)
           THEN /\ over' = TRUE
                /\ winner_id' = CHOOSE id \in AlivePlayers(ps) : TRUE
           ELSE UNCHANGED <<over, winner_id>>

\* resolve_duel on the duel object duel_history[i]
resolve_duel(i, w) ==
    /\ mode = "sequential"
    /\ i \in DOMAIN duel_history
    /\ LET duel == duel_history[i] IN
       IF ~InHistory(duel)
       THEN /\ last' = Call("resolveDuel", "UnknownDuel")
            /\ UNCHANGED gameVars
       ELSE IF ~ValidWinner(duel, w)
       THEN /\ last' = Call("resolveDuel", "InvalidWinner")
            /\ UNCHANGED gameVars
       ELSE /\ duel_history' = [duel_history EXCEPT ![i].winner_id = w]
            /\ ApplyResolution([duel EXCEPT !.winner_id = w])
            /\ last' = Call("resolveDuel", "ok")
            /\ UNCHANGED <<nrows, ncols, turn_challenger_id>>
    /\ Counted

\* The Duel objects a caller builds itself, with Duel(challenger=...,
\* challenged=..., category=...), from the game's players. resolve_duel reads
\* such a duel only through ==, so the calls explored pass a fresh copy of
\* every recorded duel and one duel that equals no recorded duel (no recorded
\* duel has the same player on both sides).
CallerDuels ==
    {NewDuel(h.challenger, h.challenged, h.category) : h \in Range(duel_history)}
        \cup {NewDuel(1, 1, "History")}

\* resolve_duel on a Duel object the caller built: not an element of
\* duel_history, so only == can make `duel not in self.duel_history` false;
\* Duel.resolve then writes the caller's object, not the recorded one
resolve_duel_foreign(duel, w) ==
    /\ mode = "sequential"
    /\ IF ~InHistory(duel)
       THEN /\ last' = Call("resolveDuel", "UnknownDuel")
            /\ UNCHANGED gameVars
       ELSE IF ~ValidWinner(duel, w)
       THEN /\ last' = Call("resolveDuel", "InvalidWinner")
            /\ UNCHANGED gameVars
       ELSE /\ ApplyResolution([duel EXCEPT !.winner_id = w])
            /\ last' = Call("resolveDuel", "ok")
            /\ UNCHANGED <<nrows, ncols, duel_history, turn_challenger_id>>
    /\ Counted

\* ---------------------------------------------------------------- Game.start_turn
\* ones = [p for p in alive_players if len(p.positions) == 1]
Ones(ps) == {id \in AlivePlayers(ps) : Len(ps[id].positions) = 1}

\* mutant of TurnCandidates: the choice is made among all alive players
TurnCandidates_alive(ps) == AlivePlayers(ps)

\* the players random.choice can return
TurnCandidates(ps) == IF Ones(ps) # {} THEN Ones(ps) ELSE AlivePlayers(ps)

start_turn ==
    /\ mode = "sequential"
    /\ IF AlivePlayers(players) = {}
       THEN /\ turn_challenger_id' = None
            /\ last' = Call("startTurn", "ok")
       ELSE \E chosen \in TurnCandidates(players) :
                /\ turn_challenger_id' = chosen
                /\ last' = Call("startTurn", "ok")
    /\ UNCHANGED <<nrows, ncols, players, grid, duel_history, over, winner_id>>
    /\ Counted

Next ==
    \/ \E p \in ArgIds, cat \in Categories : set_player_expertise(p, cat)
    \/ \E c \in ArgIds, d \in ArgIds : challenge(c, d)
    \/ \E i \in DOMAIN duel_history, w \in ArgIds : resolve_duel(i, w)
    \/ \E duel \in CallerDuels, w \in ArgIds : resolve_duel_foreign(duel, w)
    \/ start_turn

Spec == Init /\ [][Next]_vars

\* ---------------------------------------------------------------- declared games
\* The game once every player has declared an expertise: Game(...) followed
\* by set_player_expertise(id, History) for each id. Calls are counted from
\* here, so that MaxCalls calls reach the end of a three-player game.
InitDeclared ==
    \E d \in Dims :
        /\ nrows = d[1]
        /\ ncols = d[2]
        /\ players = [id \in 1..(d[1] * d[2]) |->
                        [place_players_positions(d[1], d[2])[id]
                            EXCEPT !.expertise = "History"]]
        /\ grid = place_players_grid(d[1], d[2])
        /\ duel_history = <<>>
        /\ over = FALSE
        /\ winner_id = None
        /\ turn_challenger_id = None
        /\ last = Call("setPlayerExpertise", "ok")
        /\ calls = 0
        /\ mode = "sequential"
        /\ threads = <<>>

NextDeclared ==
    \/ \E c \in ArgIds, d \in ArgIds : challenge(c, d)
    \/ \E i \in DOMAIN duel_history, w \in ArgIds : resolve_duel(i, w)
    \/ \E duel \in CallerDuels, w \in ArgIds : resolve_duel_foreign(duel, w)
    \/ start_turn

SpecDeclared == InitDeclared /\ [][NextDeclared]_vars

\* ---------------------------------------------------------------- challenged games
\* A declared game of two or more players in which the first player has
\* made the first challenge: the state after challenge(1, d) on a declared
\* game. Calls are counted from here.
InitChallenged ==
    \E b \in Dims :
      \E c \in {1}, d \in 2..(b[1] * b[2]) :
        /\ nrows = b[1]
        /\ ncols = b[2]
        /\ players = [id \in 1..(b[1] * b[2]) |->
                        [place_players_positions(b[1], b[2])[id]
                            EXCEPT !.expertise = "History"]]
        /\ grid = place_players_grid(b[1], b[2])
        /\ duel_history = <<NewDuel(c, d, "History")>>
        /\ over = FALSE
        /\ winner_id = None
        /\ turn_challenger_id = None
        /\ last = Call("challenge", "ok")
        /\ calls = 0
        /\ mode = "sequential"
        /\ threads = <<>>

\* the calls that make and resolve duels
NextChallenged ==
    \/ \E c \in ArgIds, d \in ArgIds : challenge(c, d)
    \/ \E i \in DOMAIN duel_history, w \in ArgIds : resolve_duel(i, w)
    \/ \E duel \in CallerDuels, w \in ArgIds : resolve_duel_foreign(duel, w)

SpecChallenged == InitChallenged /\ [][NextChallenged]_vars

\* ---------------------------------------------------------------- concurrent callers
\* Two callers run Game.resolve_duel on the same Game at the same time (the
\* Flask development server of web.py handles requests on threads). A frame
\* is one execution of resolve_duel; its steps are the statements of the
\* method. In mode "interleaved" the frames' statements interleave freely; in
\* mode "serialized" a frame runs from its first statement to its last
\* before another frame starts.
Threads == DOMAIN threads

Frame(i, w) ==
    [pc |-> "membership", duel |-> i, w |-> w, winner |-> None, loser |-> None,
     snapshot |-> <<>>, pos |-> <<>>, alive |-> {}]

Running(t) == threads[t].pc \notin {"membership", "done", "raised"}

MayStep(t) ==
    /\ mode \in {"interleaved", "serialized"}
    /\ mode = "serialized" => \A u \in Threads \ {t} : ~Running(u)

Goto(t, pc) == [threads EXCEPT ![t].pc = pc]

\* if duel not in self.duel_history: raise
T_membership(t) ==
    /\ MayStep(t)
    /\ threads[t].pc = "membership"
    /\ threads' = Goto(t, IF InHistory(duel_history[threads[t].duel])
                          THEN "resolve" ELSE "raised")
    /\ UNCHANGED <<gameVars, last, calls, mode>>

\* duel.resolve(winner_id=winner_id)
T_resolve(t) ==
    /\ MayStep(t)
    /\ threads[t].pc = "resolve"
    /\ IF ValidWinner(duel_history[threads[t].duel], threads[t].w)
       THEN /\ duel_history' =
                   [duel_history EXCEPT ![threads[t].duel].winner_id = threads[t].w]
            /\ threads' = Goto(t, "pick")
       ELSE /\ threads' = Goto(t, "raised")
            /\ UNCHANGED duel_history
    /\ UNCHANGED <<nrows, ncols, players, grid, over, winner_id,
                   turn_challenger_id, last, calls, mode>>

\* if duel.winner_id == duel.challenger.id: ... else: ...
T_pick(t) ==
    /\ MayStep(t)
    /\ threads[t].pc = "pick"
    /\ threads' = [threads EXCEPT
                     ![t].pc = "snapshot",
                     ![t].winner = WinnerOf(duel_history[threads[t].duel]),
                     ![t].loser = LoserOf(duel_history[threads[t].duel])]
    /\ UNCHANGED <<gameVars, last, calls, mode>>

\* list(loser.positions)
T_snapshot(t) ==
    /\ MayStep(t)
    /\ threads[t].pc = "snapshot"
    /\ threads' = [threads EXCEPT
                     ![t].pc = "for",
                     ![t].snapshot = players[threads[t].loser].positions]
    /\ UNCHANGED <<gameVars, last, calls, mode>>

\* for pos in ...: the next element of the snapshot, or the end of the loop
T_for(t) ==
    /\ MayStep(t)
    /\ threads[t].pc = "for"
    /\ threads' =
          IF threads[t].snapshot = <<>>
          THEN Goto(t, "inherit")
          ELSE [threads EXCEPT ![t].pc = "grid",
                               ![t].pos = Head(threads[t].snapshot),
                               ![t].snapshot = Tail(threads[t].snapshot)]
    /\ UNCHANGED <<gameVars, last, calls, mode>>

\* self.board._grid[pos] = winner.id
T_grid(t) ==
    /\ MayStep(t)
    /\ threads[t].pc = "grid"
    /\ grid' = GridWrite(grid, threads[t].pos, threads[t].winner)
    /\ threads' = Goto(t, "append")
    /\ UNCHANGED <<nrows, ncols, players, duel_history, over, winner_id,
                   turn_challenger_id, last, calls, mode>>

\* winner.positions.append(pos)
T_append(t) ==
    /\ MayStep(t)
    /\ threads[t].pc = "append"
    /\ players' = AppendPosition(players, threads[t].winner, threads[t].pos)
    /\ threads' = Goto(t, "for")
    /\ UNCHANGED <<nrows, ncols, grid, duel_history, over, winner_id,
                   turn_challenger_id, last, calls, mode>>

\* winner.expertise = duel.challenger.expertise
T_inherit(t) ==
    /\ MayStep(t)
    /\ threads[t].pc = "inherit"
    /\ players' = InheritExpertise(players, duel_history[threads[t].duel],
                                   threads[t].winner)
    /\ threads' = Goto(t, "clear")
    /\ UNCHANGED <<nrows, ncols, grid, duel_history, over, winner_id,
                   turn_challenger_id, last, calls, mode>>

\* loser.positions = []
T_clear(t) ==
    /\ MayStep(t)
    /\ threads[t].pc = "clear"
    /\ players' = ClearPositions(players, threads[t].loser)
    /\ threads' = Goto(t, "eliminate")
    /\ UNCHANGED <<nrows, ncols, grid, duel_history, over, winner_id,
                   turn_challenger_id, last, calls, mode>>

\* loser.eliminated = True
T_eliminate(t) ==
    /\ MayStep(t)
    /\ threads[t].pc = "eliminate"
    /\ players' = SetEliminated(players, threads[t].loser)
    /\ threads' = Goto(t, "alive")
    /\ UNCHANGED <<nrows, ncols, grid, duel_history, over, winner_id,
                   turn_challenger_id, last, calls, mode>>

\* alive_players = [p for p in self.players.values() if not p.eliminated]
T_alive(t) ==
    /\ MayStep(t)
    /\ threads[t].pc = "alive"
    /\ threads' = [threads EXCEPT ![t].pc = "check",
                                  ![t].alive = AlivePlayers(players)]
    /\ UNCHANGED <<gameVars, last, calls, mode>>

\* if len(alive_players) == 1 and len(alive_players[0].positions) == capacity:
T_check(t) ==
    /\ MayStep(t)
    /\ threads[t].pc = "check"
    /\ IF /\ Cardinality(threads[t].alive) = 1
          /\ \A id \in threads[t].alive : Len(players[id].positions) = capacity
       THEN /\ over' = TRUE
            /\ winner_id' = CHOOSE id \in threads[t].alive : TRUE
       ELSE UNCHANGED <<over, winner_id>>
    /\ threads' = Goto(t, "done")
    /\ UNCHANGED <<nrows, ncols, players, grid, duel_history,
                   turn_challenger_id, last, calls, mode>>

\* The game as two concurrent resolve_duel calls find it: every player has
\* declared an expertise and two challenges were recorded, on two pairs of
\* players that have a player in common; both duels are pending.
InitConc ==
    \E d \in Dims, m \in {"interleaved", "serialized"} :
      \E c1 \in 1..(d[1] * d[2]), d1 \in 1..(d[1] * d[2]),
         c2 \in 1..(d[1] * d[2]), d2 \in 1..(d[1] * d[2]) :
        /\ c1 # d1 /\ c2 # d2
        /\ {c1, d1} # {c2, d2}
        /\ {c1, d1} \cap {c2, d2} # {}
        /\ \E w1 \in {c1, d1}, w2 \in {c2, d2} :
            /\ nrows = d[1]
            /\ ncols = d[2]
            /\ players = [id \in 1..(d[1] * d[2]) |->
                  [place_players_positions(d[1], d[2])[id]
                      EXCEPT !.expertise = "History"]]
            /\ grid = place_players_grid(d[1], d[2])
            /\ duel_history = <<NewDuel(c1, d1, "History"),
                                NewDuel(c2, d2, "History")>>
            /\ over = FALSE
            /\ winner_id = None
            /\ turn_challenger_id = None
            /\ last = Call("challenge", "ok")
            /\ calls = 0
            /\ mode = m
            /\ threads = <<Frame(1, w1), Frame(2, w2)>>

NextConc ==
    \/ \E t \in Threads : T_membership(t)
    \/ \E t \in Threads : T_resolve(t)
    \/ \E t \in Threads : T_pick(t)
    \/ \E t \in Threads : T_snapshot(t)
    \/ \E t \in Threads : T_for(t)
    \/ \E t \in Threads : T_grid(t)
    \/ \E t \in Threads : T_append(t)
    \/ \E t \in Threads : T_inherit(t)
    \/ \E t \in Threads : T_clear(t)
    \/ \E t \in Threads : T_eliminate(t)
    \/ \E t \in Threads : T_alive(t)
    \/ \E t \in Threads : T_check(t)

SpecConc == InitConc /\ [][NextConc]_vars

\* ---------------------------------------------------------------- Game.__init__, statement by statement
\* Game(players, nrows, ncols) for the list of n new players
\* Player(id=k, name=...), k = 1..n in list order, and any two sizes, legal or
\* not. The one frame in threads holds the arguments, the position in
\* __init__ and the loop variables of place_players. An attribute of the new
\* object that no statement has assigned yet is Unset. When __init__ raises,
\* the caller gets no object.
Unset == "unset"

ConstructFrame(n, rows, cols) ==
    [pc |-> "count", n |-> n, rows |-> rows, cols |-> cols,
     r |-> 0, c |-> 0, it |-> 0]

Sides == (0 - MaxSide)..MaxSide
Counts == 0..(MaxSide * MaxSide)

InitConstruct ==
    \E n \in Counts, rows \in Sides, cols \in Sides :
        /\ nrows = Unset
        /\ ncols = Unset
        /\ players = Unset
        /\ grid = Unset
        /\ duel_history = Unset
        /\ over = Unset
        /\ winner_id = Unset
        /\ turn_challenger_id = Unset
        /\ last = Call("construct", "running")
        /\ calls = 0
        /\ mode = "constructing"
        /\ threads = <<ConstructFrame(n, rows, cols)>>

At(pc) == mode = "constructing" /\ threads[1].pc = pc

Step(pc) == threads' = [threads EXCEPT ![1].pc = pc]

\* an exception leaves __init__: the half-built object is dropped
Raise(kind) ==
    /\ last' = Call("construct", kind)
    /\ Step("raised")
    /\ nrows' = Unset /\ ncols' = Unset /\ players' = Unset /\ grid' = Unset
    /\ UNCHANGED <<duel_history, over, winner_id, turn_challenger_id>>

\* if len(players) != nrows * ncols: raise ValueError(...)
Init_count ==
    /\ At("count")
    /\ IF threads[1].n # threads[1].rows * threads[1].cols
       THEN Raise("CardinalityMismatch")
       ELSE Step("players") /\ UNCHANGED <<gameVars, last>>
    /\ UNCHANGED <<calls, mode>>

\* self.players = {p.id: p for p in players}
Init_players ==
    /\ At("players")
    /\ players' = [id \in 1..threads[1].n |-> NewPlayer]
    /\ Step("board")
    /\ UNCHANGED <<nrows, ncols, grid, duel_history, over, winner_id,
                   turn_challenger_id, last, calls, mode>>

\* mutant of BadDimension: only a zero side is refused
BadDimension_zero(rows, cols) == rows = 0 \/ cols = 0

\* if nrows <= 0 or ncols <= 0
BadDimension(rows, cols) == rows <= 0 \/ cols <= 0

\* self.board = Board(nrows, ncols)
Board_init ==
    /\ At("board")
    /\ IF BadDimension(threads[1].rows, threads[1].cols)
       THEN Raise("InvalidDimension")
       ELSE /\ grid' = EmptyGrid(threads[1].rows, threads[1].cols)
            /\ Step("dims")
            /\ UNCHANGED <<nrows, ncols, players, duel_history, over, winner_id,
                           turn_challenger_id, last>>
    /\ UNCHANGED <<calls, mode>>

\* self.nrows = nrows; self.ncols = ncols
Init_dims ==
    /\ At("dims")
    /\ nrows' = threads[1].rows
    /\ ncols' = threads[1].cols
    /\ Step("place")
    /\ UNCHANGED <<players, grid, duel_history, over, winner_id,
                   turn_challenger_id, last, calls, mode>>

\* place_players up to the loops: the length check and it = iter(players)
place_players_check ==
    /\ At("place")
    /\ IF threads[1].n # capacity
       THEN Raise("CardinalityMismatch")
       ELSE /\ threads' = [threads EXCEPT ![1].pc = IF Cells = {} THEN "fields"
                                                     ELSE "loop",
                                         ![1].r = 0, ![1].c = 0, ![1].it = 0]
            /\ UNCHANGED <<gameVars, last>>
    /\ UNCHANGED <<calls, mode>>

\* mutant of NextCell: the columns are walked in the outer loop
NextCell_columns(r, c, nr, nc) ==
    IF r + 1 < nr THEN <<r + 1, c>> ELSE <<0, c + 1>>

\* the cell the two for loops visit after (r, c)
NextCell(r, c, nr, nc) ==
    IF c + 1 < nc THEN <<r, c + 1>> ELSE <<r + 1, 0>>

\* one pass of the loop body: player = next(it); self._grid[(r, c)] =
\* player.id; player.positions = [(r, c)]
place_players_step ==
    /\ At("loop")
    /\ LET f    == threads[1]
           id   == f.it + 1
           cell == NextCell(f.r, f.c, nrows, ncols)
       IN  /\ grid' = [grid EXCEPT ![<<f.r, f.c>>] = id]
           /\ players' = [players EXCEPT ![id].positions = <<<<f.r, f.c>>>>]
           /\ threads' = [threads EXCEPT ![1].it = id,
                                         ![1].r = cell[1], ![1].c = cell[2],
                                         ![1].pc = IF cell \in Cells THEN "loop"
                                                   ELSE "fields"]
    /\ UNCHANGED <<nrows, ncols, duel_history, over, winner_id,
                   turn_challenger_id, last, calls, mode>>

\* the last four assignments of __init__; the caller has the game
Init_fields ==
    /\ At("fields")
    /\ duel_history' = <<>>
    /\ over' = FALSE
    /\ winner_id' = None
    /\ turn_challenger_id' = None
    /\ last' = Call("construct", "ok")
    /\ Step("done")
    /\ UNCHANGED <<nrows, ncols, players, grid, calls, mode>>

\* dict.get(key): the value stored under key, None when key is absent
DictGet(d, key) == IF key \in DOMAIN d THEN d[key] ELSE None

\* what Board.get_player_at(row, col) returns
get_player_at_value(row, col) == DictGet(grid, <<row, col>>)

\* game.board.get_player_at(row, col) on the new game
get_player_at(row, col) ==
    /\ At("done")
    /\ last' = [op |-> "ownerAt", res |-> "ok",
                row |-> row, col |-> col,
                value |-> get_player_at_value(row, col)]
    /\ UNCHANGED <<gameVars, calls, mode, threads>>

\* the coordinates a caller asks for: inside the board and around it
Coords == (0 - 1)..MaxSide

NextConstruct ==
    \/ Init_count
    \/ Init_players
    \/ Board_init
    \/ Init_dims
    \/ place_players_check
    \/ place_players_step
    \/ Init_fields
    \/ \E row \in Coords, col \in Coords : get_player_at(row, col)

SpecConstruct == InitConstruct /\ [][NextConstruct]_vars

\* ================================================================ properties
\* how often cell occurs in the positions of player id
Occurrences(id, cell) ==
    Cardinality({k \in DOMAIN players[id].positions :
                    players[id].positions[k] = cell})

\* the players holding a cell somewhere in their positions
Holders(cell) == {id \in Ids : Occurrences(id, cell) > 0}

\* every cell is in the positions of exactly one player, exactly once
Partition ==
    \A cell \in Cells :
        /\ Cardinality(Holders(cell)) = 1
        /\ \A id \in Holders(cell) : Occurrences(id, cell) = 1

Resolved(duel) == duel.winner_id # None

\* C1: Partition invariant. In every state reachable by set_player_expertise,
\* challenge, resolve_duel and start_turn calls, whatever duels are resolved
\* and however often, every board cell appears in the positions of exactly
\* one player and appears there once.
C1_PartitionInvariant == Partition

\* C1 witness: a duel was resolved for a winner who was already eliminated,
\* who therefore holds cells again
C1_Witness ==
    /\ \E id \in Ids : players[id].eliminated /\ players[id].positions # <<>>
    /\ \E i \in DOMAIN duel_history : Resolved(duel_history[i])

\* C2 (as claimed): while the game is not over, an eliminated player has no
\* positions.
C2_EliminatedHasNoCells ==
    ~over => \A id \in Ids : players[id].eliminated => players[id].positions = <<>>

\* C3 (as claimed): resolve_duel on a recorded duel that already has a winner
\* ends with InvalidWinner and changes nothing in the game.
C3_ResolveOnce ==
    [][last'.op = "resolveDuel" =>
          \A i \in DOMAIN duel_history, w \in ArgIds :
              (Resolved(duel_history[i]) /\ resolve_duel(i, w))
                  => (last'.res = "InvalidWinner" /\ UNCHANGED gameVars)]_vars

\* the non-eliminated players owning as many positions as the board has cells
FullOwners == {id \in Ids : ~players[id].eliminated
                            /\ Len(players[id].positions) = capacity}

\* C4 (as claimed): over is true exactly when one non-eliminated player's
\* positions number the board's capacity, and then winner_id is that player.
C4_OverCharacterised ==
    /\ over <=> (FullOwners # {})
    /\ over => winner_id \in FullOwners

\* C5: Expertise inheritance. After every resolve_duel that returns normally,
\* the winner's expertise is the expertise the duel's challenger had just
\* before the call: a winning challenged player's expertise is replaced by the
\* challenger's, a winning challenger keeps theirs.
C5_InheritFor(duel, w) ==
        /\ players'[w].expertise = players[duel.challenger].expertise
        /\ w = duel.challenger => players'[w].expertise = players[w].expertise

C5_ExpertiseInheritance ==
    [][last' = Call("resolveDuel", "ok") =>
          /\ \A i \in DOMAIN duel_history, w \in ArgIds :
                resolve_duel(i, w) => C5_InheritFor(duel_history[i], w)
          /\ \A duel \in CallerDuels, w \in ArgIds :
                resolve_duel_foreign(duel, w) => C5_InheritFor(duel, w)]_vars

\* C5 witness: a challenged player has won a duel and now has no expertise,
\* having taken over the challenger's (none) in place of the declared one
C5_Witness ==
    /\ last = Call("resolveDuel", "ok")
    /\ \E i \in DOMAIN duel_history :
          /\ duel_history[i].winner_id = duel_history[i].challenged
          /\ players[duel_history[i].challenged].expertise = NoCategory

\* C6: A challenge that returns normally appends exactly one duel at the end
\* of duel_history: challenger c, challenged d, no winner, and d's expertise
\* at that moment as category. Every recorded duel keeps its index, its
\* challenger, its challenged and its category in every later step.
C6_ChallengeRecorded ==
    [][/\ last' = Call("challenge", "ok") =>
            \A c \in ArgIds, d \in ArgIds :
              challenge(c, d) =>
                /\ Len(duel_history') = Len(duel_history) + 1
                /\ duel_history'[Len(duel_history')] =
                      [challenger |-> c, challenged |-> d,
                       category |-> players[d].expertise, winner_id |-> None]
       /\ Len(duel_history') >= Len(duel_history)
       /\ \A i \in DOMAIN duel_history :
            /\ duel_history'[i].challenger = duel_history[i].challenger
            /\ duel_history'[i].challenged = duel_history[i].challenged
            /\ duel_history'[i].category = duel_history[i].category]_vars

\* C6 witness: a recorded duel's category differs from what the challenged
\* player's expertise has become, and a later duel stands behind it
C6_Witness ==
    /\ Len(duel_history) >= 2
    /\ duel_history[1].category # players[duel_history[1].challenged].expertise

\* the outcome of challenge(c, d) by the cases of C7, read in the order listed
C7_Outcome(c, d) ==
    IF c = d THEN "SelfChallenge"
    ELSE IF c \notin Ids \/ d \notin Ids THEN "UnknownPlayer"
    ELSE IF players[d].expertise = NoCategory THEN "NoExpertiseSet"
    ELSE "ok"

\* C7: Challenge legality. challenge(c, d) raises SelfChallenge when c = d,
\* UnknownPlayer when c # d and one of them is not registered, NoExpertiseSet
\* when both are registered, differ and d has no expertise, and returns
\* normally otherwise, whatever the eliminated flags and over are. A challenge
\* that raises changes nothing in the game. (No step of any challenge(c, d)
\* ends otherwise than the claim says for c and d.)
C7_ChallengeLegality ==
    [][last'.op = "challenge" =>
          /\ last'.res # "ok" => UNCHANGED gameVars
          /\ \A c \in ArgIds, d \in ArgIds :
                last'.res = C7_Outcome(c, d) \/ ~challenge(c, d)]_vars

\* C7 witness: the last call was a challenge that returned normally although
\* one of its two players was eliminated
C7_Witness ==
    /\ last = Call("challenge", "ok")
    /\ LET duel == duel_history[Len(duel_history)] IN
          players[duel.challenger].eliminated \/ players[duel.challenged].eliminated

\* C8 (as claimed): resolve_duel raises UnknownDuel for every duel object
\* that challenge did not return, and InvalidWinner for a recorded duel when w
\* is neither participant; either way nothing in the game changes.
C8_ResolveRejects ==
    [][last'.op = "resolveDuel" =>
       /\ \A duel \in CallerDuels, w \in ArgIds :
            resolve_duel_foreign(duel, w) =>
                (last'.res = "UnknownDuel" /\ UNCHANGED gameVars)
       /\ \A i \in DOMAIN duel_history, w \in ArgIds :
            (resolve_duel(i, w) /\ w # duel_history[i].challenger
                                /\ w # duel_history[i].challenged) =>
                (last'.res = "InvalidWinner" /\ UNCHANGED gameVars)]_vars

\* C9: Game over is irreversible. Once over is true it stays true and
\* winner_id keeps its value, whatever is called afterwards.
C9_OverIrreversible ==
    [][over => (over' /\ winner_id' = winner_id)]_vars

\* C9 witness: the game is over and a later resolution has eliminated the
\* recorded winner
C9_Witness == over /\ players[winner_id].eliminated

\* every cell is in the positions of exactly one player
OneHolderEach == \A cell \in Cells : Cardinality(Holders(cell)) = 1

\* no resolve_duel call is between its first and its last statement
Quiescent == \A t \in Threads : ~Running(t)

\* C10: Without serialization the partition is not kept. When the two
\* resolve_duel calls run one after the other, every state between and after
\* them has every cell in exactly one player's positions; when their
\* statements interleave, both calls can return leaving a cell in no player's
\* positions or in two players' positions (the witness).
C10_SerializedKeepsPartition ==
    (mode = "serialized" /\ Quiescent) => OneHolderEach

\* C10 witness: both interleaved calls have returned and some cell is in no
\* player's positions or in the positions of two players
C10_Witness ==
    /\ mode = "interleaved"
    /\ \A t \in Threads : threads[t].pc = "done"
    /\ ~OneHolderEach

\* the players start_turn may return by the rule of C11
C11_Rule ==
    LET alive  == {id \in Ids : ~players[id].eliminated}
        single == {id \in alive : Len(players[id].positions) = 1}
    IN  IF single # {} THEN single ELSE alive

\* C11: startTurn selection rule. start_turn returns none exactly when no
\* player is non-eliminated; otherwise it returns a non-eliminated player,
\* one owning exactly one cell if some non-eliminated player owns exactly one
\* cell. The returned value is what turn_challenger_id holds afterwards, and
\* nothing else in the game changes. Every player the rule allows can be
\* returned (second conjunct; start_turn is explored while calls < MaxCalls).
C11_StartTurnRule ==
    /\ [][last'.op = "startTurn" =>
            /\ last'.res = "ok"
            /\ (turn_challenger_id' = None) <=>
                    (\A id \in Ids : players[id].eliminated)
            /\ turn_challenger_id' # None =>
                    /\ turn_challenger_id' \in Ids
                    /\ ~players[turn_challenger_id'].eliminated
                    /\ turn_challenger_id' \in C11_Rule
            /\ UNCHANGED <<nrows, ncols, players, grid, duel_history, over,
                           winner_id>>]_vars
    /\ [](calls < MaxCalls =>
            \A id \in C11_Rule : ENABLED (start_turn /\ turn_challenger_id' = id))

\* C11 witness: start_turn has returned none, every player being eliminated
C11_Witness ==
    /\ last = Call("startTurn", "ok")
    /\ turn_challenger_id = None
    /\ \A id \in Ids : players[id].eliminated

\* start_turn has passed over a non-eliminated player owning several cells
\* for the one owning a single cell
C11_PreferenceSeen ==
    /\ last = Call("startTurn", "ok")
    /\ turn_challenger_id # None
    /\ \E id \in Ids : ~players[id].eliminated /\ Len(players[id].positions) > 1

\* C12: Eliminated players are permanently out of contention. In every step
\* a player who is eliminated stays eliminated and the number of
\* non-eliminated players does not grow; a step that changes winner_id sets
\* it to a player who is not eliminated; start_turn never returns an
\* eliminated player. This holds whatever duels an eliminated player takes
\* part in or wins afterwards.
C12_EliminatedStaysOut ==
    [][/\ \A id \in Ids : players[id].eliminated => players'[id].eliminated
       /\ Cardinality({id \in Ids : ~players'[id].eliminated})
             <= Cardinality({id \in Ids : ~players[id].eliminated})
       /\ winner_id' # winner_id =>
             /\ winner_id' \in Ids
             /\ ~players'[winner_id'].eliminated
             /\ ~players[winner_id'].eliminated
       /\ (last'.op = "startTurn" /\ turn_challenger_id' # None) =>
             ~players'[turn_challenger_id'].eliminated]_vars

\* C12 witness: an eliminated player has won a later resolution and holds
\* cells again, and start_turn has then returned somebody else
C12_Witness ==
    /\ last = Call("startTurn", "ok")
    /\ turn_challenger_id # None
    /\ \E id \in Ids : /\ players[id].eliminated
                        /\ players[id].positions # <<>>
                        /\ id # turn_challenger_id

\* C13: Non-eliminated players always hold a cell. In every reachable state
\* in which over is false, every player whose eliminated flag is false has at
\* least one position.
C13_AliveHoldsCell ==
    ~over => \A id \in Ids : ~players[id].eliminated => players[id].positions # <<>>

\* C13 witness: the game is not over, a player has been eliminated and a
\* non-eliminated player holds the cells taken over
C13_Witness ==
    /\ ~over
    /\ \E id \in Ids : players[id].eliminated
    /\ \E id \in Ids : ~players[id].eliminated /\ Len(players[id].positions) >= 2

\* C14: Row-major initial placement. When Game(players, rows, cols) has
\* returned for the players p_0 .. p_(n-1), n = rows * cols, player p_k (id
\* k + 1) has as positions exactly the cell (k div cols, k mod cols), the
\* grid maps that cell to p_k's id, nobody is eliminated, duel_history is
\* empty, over is false, and winner_id and turn_challenger_id are none.
C14_RowMajorPlacement ==
    At("done") =>
        /\ threads[1].n = nrows * ncols
        /\ Ids = 1..threads[1].n
        /\ \A k \in 0..(threads[1].n - 1) :
              /\ players[k + 1].positions = <<<<k \div ncols, k % ncols>>>>
              /\ grid[<<k \div ncols, k % ncols>>] = k + 1
              /\ ~players[k + 1].eliminated
        /\ duel_history = <<>>
        /\ over = FALSE
        /\ winner_id = None
        /\ turn_challenger_id = None

\* C14 witness: a game on a board of several rows and several columns has
\* been constructed
C14_Witness == At("done") /\ nrows > 1 /\ ncols > 1

\* the constructed game is the initial state the calls are explored from
ConstructedAsInit ==
    At("done") => /\ players = place_players_positions(nrows, ncols)
                  /\ grid = place_players_grid(nrows, ncols)
                  /\ <<nrows, ncols>> \in Range(Boards)

\* the sizes C15 calls illegal, for the arguments of the running construction
IllegalSize ==
    \/ threads[1].n # threads[1].rows * threads[1].cols
    \/ threads[1].rows <= 0
    \/ threads[1].cols <= 0

\* C15: Construction is rejected for every illegal size. Game(players, rows,
\* cols) with len(players) # rows * cols, or with rows <= 0 or cols <= 0
\* (also when rows * cols equals the player count: both negative, or no
\* players and a zero side), never gets past the creation of the board: it
\* raises, and no game exists afterwards.
C15_IllegalSizeRejected ==
    (mode = "constructing" /\ IllegalSize) =>
        /\ threads[1].pc \in {"count", "players", "board", "raised"}
        /\ last.op = "construct" /\ last.res # "ok"
        /\ threads[1].pc = "raised" =>
              /\ last.res \in {"CardinalityMismatch", "InvalidDimension"}
              /\ nrows = Unset /\ ncols = Unset /\ players = Unset
              /\ grid = Unset /\ duel_history = Unset /\ over = Unset
        /\ threads[1].pc \in {"count", "players", "board"} =>
              ENABLED (Init_count \/ Init_players \/ Board_init)

\* C15 witness: construction has raised for two negative sizes whose
\* product is the number of players passed
C15_Witness ==
    /\ At("raised")
    /\ threads[1].rows < 0 /\ threads[1].cols < 0
    /\ threads[1].n = threads[1].rows * threads[1].cols

\* C16 (as claimed): ownerAt(row, col) returns the id of the cell's owner
\* for coordinates inside [0, rows) x [0, cols) and fails with OutOfRange,
\* rather than returning none, for coordinates outside.
C16_OwnerAtRange ==
    last.op = "ownerAt" =>
        IF <<last.row, last.col>> \in Cells
        THEN /\ last.res = "ok"
             /\ last.value \in Ids
             /\ <<last.row, last.col>> \in Range(players[last.value].positions)
        ELSE last.res = "OutOfRange"

\* what C17 says a resolution of duel for w does, the loser being the other
\* participant
C17_EffectFor(duel, w) ==
    LET l      == IF w = duel.challenger THEN duel.challenged ELSE duel.challenger
        lcells == Range(players[l].positions)
    IN  /\ players'[w].positions = players[w].positions \o players[l].positions
        /\ players'[l].positions = <<>>
        /\ players'[l].eliminated
        /\ \A cell \in lcells : grid'[cell] = w
        /\ \A cell \in Cells \ lcells : grid'[cell] = grid[cell]
        /\ \A id \in Ids \ {w, l} : players'[id] = players[id]
        /\ players'[l].expertise = players[l].expertise
        /\ Len(duel_history') = Len(duel_history)
        /\ turn_challenger_id' = turn_challenger_id
        /\ DOMAIN players' = DOMAIN players
        /\ nrows' = nrows /\ ncols' = ncols

\* C17: Effect and frame of a successful resolve_duel(duel, w). Afterwards
\* the winner's positions are the winner's previous positions followed by
\* the loser's previous positions, the loser has no positions and is
\* eliminated, the grid maps each cell the loser held to the winner, and
\* nothing else changes: the players who are not participants, the other
\* grid entries, the loser's expertise, the length of duel_history and
\* turn_challenger_id.
C17_ResolveEffect ==
    [][last' = Call("resolveDuel", "ok") =>
          /\ \A i \in DOMAIN duel_history, w \in ArgIds :
                resolve_duel(i, w) => C17_EffectFor(duel_history[i], w)
          /\ \A duel \in CallerDuels, w \in ArgIds :
                resolve_duel_foreign(duel, w) => C17_EffectFor(duel, w)]_vars

\* C17 witness: a duel has been resolved after start_turn had recorded a
\* challenger, on a board where a third player stood by: the winner holds
\* two cells and the recorded challenger is still there
C17_Witness ==
    /\ last = Call("resolveDuel", "ok")
    /\ turn_challenger_id # None
    /\ \E w \in Ids, id \in Ids :
          /\ Len(players[w].positions) = 2
          /\ id # w /\ ~players[id].eliminated

\* C18: Grid and positions agree. In every reachable state no grid cell is
\* unowned, and the id the grid holds for a cell is the id of the one player
\* whose positions contain the cell, after any sequence of resolutions.
C18_GridMatchesPositions ==
    \A cell \in Cells :
        /\ grid[cell] # None
        /\ grid[cell] \in Ids
        /\ Holders(cell) = {grid[cell]}

\* C18 witness: resolutions have handed a cell to a player who had been
\* eliminated before, and grid and positions both name that player
C18_Witness ==
    \E cell \in Cells :
        /\ players[grid[cell]].eliminated
        /\ cell \in Range(players[grid[cell]].positions)

\* the number of non-eliminated players
AliveCount == Cardinality({id \in Ids : ~players[id].eliminated})

\* a duel C19 allows to be resolved: no winner yet, both participants
\* non-eliminated
LegalDuel(duel) ==
    /\ ~Resolved(duel)
    /\ ~players[duel.challenger].eliminated
    /\ ~players[duel.challenged].eliminated

\* what every state of a run of legal resolutions satisfies: the eliminated
\* players hold nothing
LegalSoFar == \A id \in Ids : players[id].eliminated => players[id].positions = <<>>

\* no player is left and the game is not over
Dead == ~over /\ \A id \in Ids : players[id].eliminated

\* a legal resolution for w: one player fewer; a run legal so far stays so,
\* and when it leaves a single player the game is over and w has won it all
C19_LegalStep(w) ==
    /\ Cardinality({id \in Ids : ~players'[id].eliminated}) = AliveCount - 1
    /\ LegalSoFar =>
          /\ \A id \in Ids : players'[id].eliminated => players'[id].positions = <<>>
          /\ AliveCount = 2 =>
                /\ over'
                /\ winner_id' = w
                /\ {id \in Ids : ~players'[id].eliminated} = {w}
                /\ Len(players'[w].positions) = capacity
          /\ AliveCount > 2 => ~over'

\* C19: Progress under legal play. On a board of n >= 2 players, every
\* resolve_duel that returns normally for a duel without a winner whose two
\* participants are non-eliminated lowers the number of non-eliminated
\* players by exactly one; over is false while two or more players are
\* non-eliminated; and in a run of such resolutions, the one that leaves a
\* single player (the (n-1)-th, each lowering the number by one from n) sets
\* over, with winner_id the remaining player, who owns every cell. Without
\* the restriction a state with no player left and over false is reachable
\* (the witness), and no step leads out of it.
C19_ProgressUnderLegalPlay ==
    /\ [](AliveCount >= 2 => ~over)
    /\ [][last' = Call("resolveDuel", "ok") =>
            /\ \A i \in DOMAIN duel_history, w \in ArgIds :
                  (LegalDuel(duel_history[i]) /\ resolve_duel(i, w))
                      => C19_LegalStep(w)
            /\ \A duel \in CallerDuels, w \in ArgIds :
                  (LegalDuel(duel) /\ resolve_duel_foreign(duel, w))
                      => C19_LegalStep(w)]_vars
    /\ [][Dead => Dead']_vars

\* C19 witness: an eliminated player has won duels, every player of a board
\* of two or more is eliminated and the game is not over
C19_Witness == Dead /\ capacity >= 2

\* a game of three players has ended by legal play
C19_LegalEndSeen ==
    /\ over /\ capacity >= 3
    /\ LegalSoFar
    /\ AliveCount = 1

\* C20 (as claimed): whenever turn_challenger_id is set, it is the id of a
\* registered player who is not eliminated.
C20_TurnChallengerValid ==
    turn_challenger_id # None =>
        /\ turn_challenger_id \in Ids
        /\ ~players[turn_challenger_id].eliminated
====
